---- MODULE Spec2Model ----
(***************************************************************************)
(* bandw (test5.cpp): a half-duplex bandwidth meter over raw ethernet      *)
(* frames.  Two processes run main(): a transmitter "T" (started with      *)
(* -transmitter) and a responder "R".  Each step of main() that makes a    *)
(* system call is one action; the link between the two sockets is a pair   *)
(* of frame queues.                                                        *)
(***************************************************************************)
EXTENDS Integers, Sequences, FiniteSets, TLC

(* ---------------------------------------------------------------- bounds *)
\* largest -packetcount drawn when the link and the OS may misbehave
MaxCount == 2
\* largest -packetcount drawn on the lossless link
MaxLosslessCount == 10
\* how many times the link may drop, reorder, duplicate or inject a frame
MaxFaults == 1

(* ------------------------------------------------------ program constants *)
magic == 839909667            \* 0x32100123
frame_min_size == 60          \* ETH_ZLEN
frame_max_size == 1514        \* ETH_FRAME_LEN
packet_size == 1500           \* ETH_DATA_LEN
ETH_ALEN == 6
ETH_HLEN == 14
ETH_P_IP == 2048              \* 0x0800
AF_PACKET == 17
ARPHRD_ETHER == 1
PACKET_OTHERHOST == 3

Procs == {"T", "R"}
Peer(p) == IF p = "T" THEN "R" ELSE "T"
\* flags & flag_transmitter
flag_transmitter(p) == p = "T"

(* ------------------------------------------------------------ environment *)
\* the hardware addresses of the two hosts' interfaces
MacA == <<2, 0, 0, 0, 0, 1>>
MacB == <<0, 27, 33, 128, 254, 255>>
\* what the kernel knows: interface name -> index and hardware address
IfTable == [eth0 |-> [ifindex |-> 2, hwaddr |-> MacA],
            eth1 |-> [ifindex |-> 3, hwaddr |-> MacB]]
\* uint8_t target[8] as sscanf fills it: six octets, the last two stay 0
TargetOf(mac) == mac \o <<0, 0>>
\* an octet as the (signed) char of sockaddr.sa_data holds it
ToChar(o) == IF o >= 128 THEN o - 256 ELSE o
\* the conversion of a char to unsigned char
ToU8(c) == c % 256
\* the two octets, as they lie in memory, of the uint16_t htons(x) returns
htons(x) == <<x \div 256, x % 256>>
\* CLOCK_MONOTONIC_RAW readings, in increasing order
ClockSamples == <<[tv_sec |-> 0, tv_nsec |-> 999999999],
                  [tv_sec |-> 1, tv_nsec |-> 0]>>

\* timer_nsec(): t.tv_sec * uint64_t(1e9) + t.tv_nsec
timer_nsec(t) == t.tv_sec * 1000000000 + t.tv_nsec

\* a bug: main's return value does not reach the exit status
ExitStatus_Dropped(ret) == 0

\* the exit status the parent sees for main's return value
ExitStatus(ret) == ret % 256

(* ---------------------------------------------------------------- frames *)
\* a frame buffer: the 14-octet header and the first two payload words
Frame(d, s, pr, w0, w1) ==
  [h_dest |-> d, h_source |-> s, h_proto |-> pr, w0 |-> w0, w1 |-> w1]
\* before malloc there is no buffer
NoFrame == Frame(<<>>, <<>>, <<>>, 0, 0)
\* malloc'ed memory holds no defined value until it is written: each field
\* of a fresh buffer is marked unwritten, and main() is shown never to read
\* or transmit a header field or payload word marked so
Unwritten == Frame(<<"?">>, <<"?">>, <<"?">>, -1, -1)
NoSaddr == [sll_family |-> 0, sll_protocol |-> <<>>, sll_ifindex |-> 0,
            sll_hatype |-> 0, sll_pkttype |-> 0, sll_halen |-> 0,
            sll_addr |-> <<>>]
\* ifreq's union ifr_ifru before any ioctl has filled it: nothing to read
NoIfr == <<>>
\* a frame on the wire: its length and its content
Wire(len, f) == [len |-> len, data |-> f]
\* traffic of other protocols seen by an ETH_P_ALL socket
Foreign == {Wire(frame_min_size, Frame(MacA, MacB, <<8, 6>>, 1, 2048)),
            Wire(frame_max_size, Frame(MacA, MacB, htons(ETH_P_IP), 0, 0))}

VARIABLES
  pc,            \* where each process is in main()
  packet_count,  \* -packetcount N
  iface_name,    \* -interface name
  target,        \* -target mac, uint8_t[8]
  frame,         \* scoped< uint8_t*, generic_free > frame
  fd,            \* scoped< int, close_file_descriptor > fd
  frame0,        \* outgoing frame buffer
  frame1,        \* incoming frame buffer
  saddr,         \* sockaddr_ll saddr
  ifr,           \* ifreq ifr of init_ethhdr_and_saddr
  i,             \* the running loop's index
  t0,            \* transmitter's start time
  status,        \* <<>> while running, <<exit status>> after
  out,           \* lines printed to stdout
  err,           \* lines printed to stderr
  calls,         \* the system calls made so far, with their results
  net,           \* net[p]: frames queued at p's socket
  faults,        \* how many times the link misbehaved
  damaged        \* damaged[p]: a frame bound for p was dropped or reordered

vars == <<pc, packet_count, iface_name, target, frame, fd, frame0, frame1,
          saddr, ifr, i, t0, status, out, err, calls, net, faults, damaged>>

config == <<packet_count, iface_name, target>>
link == <<net, faults, damaged>>


(* ------------------------------------------------------- scoped cleanup *)
Call(op, arg, ret) == [op |-> op, arg |-> arg, ret |-> ret]
\* a printed line: its text and the values of its conversions
Line(text, vals) == [text |-> text, vals |-> vals]

\* generic_free::operator(): free(ptr) unless ptr is null
generic_free(ptr) ==
  IF 0 # ptr THEN <<Call("free", ptr, 0)>> ELSE <<>>

\* a bug: descriptor 0 is taken for no descriptor
close_file_descriptor_Positive(d) ==
  IF 0 < d THEN <<Call("close", d, 0)>> ELSE <<>>

\* close_file_descriptor::operator(): close(fd) unless fd is negative
close_file_descriptor(d) ==
  IF 0 <= d THEN <<Call("close", d, 0)>> ELSE <<>>

\* ~scoped() of fd, then of frame: main's locals die in reverse order
Unwind(d, ptr) == close_file_descriptor(d) \o generic_free(ptr)

\* return ret from main: print, run the destructors, exit
Return(p, ret, lines, made, dtors) ==
  /\ pc' = [pc EXCEPT ![p] = "done"]
  /\ status' = [status EXCEPT ![p] = <<ExitStatus(ret)>>]
  /\ err' = [err EXCEPT ![p] = @ \o lines]
  /\ calls' = [calls EXCEPT ![p] = @ \o made \o dtors]

\* a call that succeeded: main goes on at label next
Proceed(p, next, made) ==
  /\ pc' = [pc EXCEPT ![p] = next]
  /\ calls' = [calls EXCEPT ![p] = @ \o made]
  /\ UNCHANGED <<status, err>>

(* ------------------------------------------------- what the OS may answer *)
MallocResults(faulty) == IF faulty THEN {0, 4096} ELSE {4096}
\* the lowest free descriptor: 0 when stdin is closed, else 3
SocketResults(faulty) == IF faulty THEN {-1, 0} ELSE {3}
\* ioctl fails for a name the kernel does not know, and may fail anyway
IoctlResults(name, faulty) ==
  IF name \in DOMAIN IfTable THEN (IF faulty THEN {-1, 0} ELSE {0}) ELSE {-1}
BindResults(faulty) == IF faulty THEN {-1, 0} ELSE {0}
\* sendto on a packet socket: the whole frame, a part of it, or an error
SendResults(faulty) ==
  IF faulty THEN {-1, frame_min_size, frame_max_size} ELSE {frame_max_size}

(* ------------------------------------------------------------------ Init *)
InitWith(Counts, Setups) ==
  /\ packet_count \in [Procs -> Counts]
  /\ \E s \in Setups :
       /\ iface_name = [p \in Procs |-> s[p][1]]
       /\ target = [p \in Procs |-> TargetOf(s[p][2])]
  /\ pc = [p \in Procs |-> "alloc"]
  /\ frame = [p \in Procs |-> 0]
  /\ fd = [p \in Procs |-> -1]
  /\ frame0 = [p \in Procs |-> NoFrame]
  /\ frame1 = [p \in Procs |-> NoFrame]
  /\ saddr = [p \in Procs |-> NoSaddr]
  /\ ifr = [p \in Procs |-> NoIfr]
  /\ i = [p \in Procs |-> 0]
  /\ t0 = [p \in Procs |-> 0]
  /\ status = [p \in Procs |-> <<>>]
  /\ out = [p \in Procs |-> <<>>]
  /\ err = [p \in Procs |-> <<>>]
  /\ calls = [p \in Procs |-> <<>>]
  /\ net = [p \in Procs |-> <<>>]
  /\ faults = 0
  /\ damaged = [p \in Procs |-> FALSE]

\* -interface and -target of each process
\* the transmitter on eth0 aims at eth1's address and the responder back
Conformant == [T |-> <<"eth0", MacB>>, R |-> <<"eth1", MacA>>]
\* other command lines: the other interface and target, and an interface the
\* kernel does not know, on either side
AnySetups == {Conformant,
              [T |-> <<"eth1", MacA>>, R |-> <<"wlan9", MacB>>],
              [T |-> <<"wlan9", MacB>>, R |-> <<"eth0", MacB>>]}

Init == InitWith(1 .. MaxCount, AnySetups)
InitLossless == InitWith(1 .. MaxLosslessCount, {Conformant})

(* ----------------------------------------------------------------- setup *)
\* main, line 221: room for two ethernet frames
AllocSize == frame_max_size * 2
\* main, lines 229-232: where the two frames and their payloads lie, for an
\* allocation at address base
Frame0At(base) == base
Frame1At(base) == base + frame_max_size
Payload0At(base) == Frame0At(base) + ETH_HLEN
Payload1At(base) == Frame1At(base) + ETH_HLEN

\* main, lines 219-226: malloc(frame_max_size * 2)
Alloc(p, faulty) ==
  /\ pc[p] = "alloc"
  /\ \E ptr \in MallocResults(faulty) :
       LET made == <<Call("malloc", AllocSize, ptr)>> IN
       /\ frame' = [frame EXCEPT ![p] = ptr]
       /\ IF 0 = ptr
            THEN /\ Return(p, -1, <<Line("error: cannot allocate buffer", <<>>)>>, made,
                           generic_free(ptr))
                 /\ UNCHANGED <<frame0, frame1>>
            ELSE /\ Proceed(p, "socket", made)
                 /\ frame0' = [frame0 EXCEPT ![p] = Unwritten]
                 /\ frame1' = [frame1 EXCEPT ![p] = Unwritten]
  /\ UNCHANGED <<config, fd, saddr, ifr, i, t0, out, link>>

\* main, lines 234-241: socket(AF_PACKET, SOCK_RAW, htons(ETH_P_ALL))
OpenSocket(p, faulty) ==
  /\ pc[p] = "socket"
  /\ \E d \in SocketResults(faulty) :
       LET made == <<Call("socket", AF_PACKET, d)>> IN
       /\ fd' = [fd EXCEPT ![p] = d]
       /\ IF 0 > d
            THEN Return(p, -1, <<Line("error: cannot create socket", <<>>)>>, made,
                        Unwind(d, frame[p]))
            ELSE Proceed(p, "ifindex", made)
  /\ UNCHANGED <<config, frame, frame0, frame1, saddr, ifr, i, t0, out, link>>

\* init_ethhdr_and_saddr, lines 110-113: the target's six octets
TargetOctets(tgt) == [k \in 1 .. ETH_ALEN |-> tgt[k]]

\* init_ethhdr_and_saddr, lines 102-113: saddr after memset and the fill-in
FillSaddr(tgt) ==
  [sll_family |-> AF_PACKET, sll_protocol |-> htons(ETH_P_IP), sll_ifindex |-> 0,
   sll_hatype |-> ARPHRD_ETHER, sll_pkttype |-> PACKET_OTHERHOST,
   sll_halen |-> ETH_ALEN, sll_addr |-> TargetOctets(tgt) \o <<0, 0>>]

\* a bug: the chars of sa_data are kept signed
SourceOctets_NoCast(sa_data) == [k \in 1 .. ETH_ALEN |-> sa_data[k]]

\* init_ethhdr_and_saddr, lines 133-134: h_source from ifr.ifr_hwaddr.sa_data
SourceOctets(sa_data) == [k \in 1 .. ETH_ALEN |-> ToU8(sa_data[k])]

\* SIOCGIFHWADDR's answer: sa_data holds the address as chars
HwaddrAnswer(name) == [k \in 1 .. ETH_ALEN |-> ToChar(IfTable[name].hwaddr[k])]

\* init_ethhdr_and_saddr, lines 120 and 128: -1 == ioctl(...)
IoctlFailed(r) == -1 = r

\* what a successful ioctl leaves in ifr (a failed one leaves ifr as it was)
IfindexAnswer(name) == <<IfTable[name].ifindex>>

\* init_ethhdr_and_saddr, lines 96-123 (and main's return at 245-247)
InitIndex(p, faulty) ==
  /\ pc[p] = "ifindex"
  /\ saddr' = [saddr EXCEPT ![p] = FillSaddr(target[p])]
  /\ frame0' = [frame0 EXCEPT ![p].h_dest = TargetOctets(target[p])]
  /\ \E r \in IoctlResults(iface_name[p], faulty) :
       LET made == <<Call("ioctl SIOCGIFINDEX", iface_name[p], r)>> IN
       /\ ifr' = [ifr EXCEPT ![p] = IF r = 0 THEN IfindexAnswer(iface_name[p]) ELSE @]
       /\ IF IoctlFailed(r)
            THEN Return(p, -1, <<Line("error: cannot obtain iface name", <<>>)>>, made,
                        Unwind(fd[p], frame[p]))
            ELSE Proceed(p, "ifhwaddr", made)
  /\ UNCHANGED <<config, frame, fd, frame1, i, t0, out, link>>

\* init_ethhdr_and_saddr, lines 125-138 (and main's return at 245-247)
InitHwaddr(p, faulty) ==
  /\ pc[p] = "ifhwaddr"
  /\ saddr' = [saddr EXCEPT ![p].sll_ifindex = ifr[p][1]]
  /\ \E r \in IoctlResults(iface_name[p], faulty) :
       LET made == <<Call("ioctl SIOCGIFHWADDR", iface_name[p], r)>> IN
       /\ ifr' = [ifr EXCEPT ![p] = IF r = 0 THEN HwaddrAnswer(iface_name[p]) ELSE @]
       /\ IF IoctlFailed(r)
            THEN /\ Return(p, -1, <<Line("error: cannot obtain iface hw addr", <<>>)>>, made,
                           Unwind(fd[p], frame[p]))
                 /\ frame0' = frame0
            ELSE /\ Proceed(p, "bind", made)
                 /\ frame0' = [frame0 EXCEPT
                      ![p].h_source = SourceOctets(ifr'[p]),
                      ![p].h_proto = htons(ETH_P_IP)]
  /\ UNCHANGED <<config, frame, fd, frame1, i, t0, out, link>>

\* a bug: bind's failure goes unnoticed
BindFailed_Never(r) == r < -1

\* main, line 250: 0 > bind(...)
BindFailed(r) == 0 > r

\* main, lines 249-253: bind(fd, &saddr)
Bind(p, faulty) ==
  /\ pc[p] = "bind"
  /\ \E r \in BindResults(faulty) :
       LET made == <<Call("bind", saddr[p].sll_ifindex, r)>> IN
       IF BindFailed(r)
         THEN Return(p, -1, <<Line("error: cannot bind to iface", <<>>)>>, made,
                     Unwind(fd[p], frame[p]))
         ELSE Proceed(p, "role", made)
  /\ UNCHANGED <<config, frame, fd, frame0, frame1, saddr, ifr, i, t0, out, link>>

(* ------------------------------------------------------------- role loops *)
\* clock readings not before time t (the clock is monotonic)
ReadingsFrom(t) ==
  {timer_nsec(ClockSamples[k]) : k \in 1 .. Len(ClockSamples)} \ (0 .. (t - 1))

\* main, lines 255-259 and 305-307: the banner, and the transmitter's t0
Role(p) ==
  /\ pc[p] = "role"
  /\ IF flag_transmitter(p)
       THEN /\ out' = [out EXCEPT ![p] = Append(@, Line("transmitter at interface", <<iface_name[p]>>))]
            /\ \E t \in ReadingsFrom(0) :
                 /\ t0' = [t0 EXCEPT ![p] = t]
                 /\ calls' = [calls EXCEPT ![p] = Append(@, Call("timer_nsec", "t0", t))]
            /\ pc' = [pc EXCEPT ![p] = IF 0 < packet_count[p] THEN "send" ELSE "recv"]
       ELSE /\ out' = [out EXCEPT ![p] = Append(@, Line("responder at interface", <<iface_name[p]>>))]
            /\ UNCHANGED <<t0, calls>>
            /\ pc' = [pc EXCEPT ![p] = IF 0 < packet_count[p] THEN "recv" ELSE "send"]
  /\ i' = [i EXCEPT ![p] = 0]
  /\ UNCHANGED <<config, frame, fd, frame0, frame1, saddr, ifr, status, err, link>>

\* a bug: any transfer of at least the minimum frame size is accepted
ShortCount_MinSize(r) == r < frame_min_size

\* a bug: only an error return counts as a failed transfer
ShortCount_ErrorOnly(r) == r < 0

\* lines 268, 277, 312, 332: frame_max_size != sent, frame_max_size != recv
ShortCount(r) == frame_max_size # r

\* a bug: the loop is left after its first iteration
More_Once(idx, n) == idx + 1 < 1

\* a bug: the loop runs once too often
More_OffByOne(idx, n) == idx + 1 <= n

\* lines 261, 274, 309, 326: ++i, then i < packet_count: another iteration
More(idx, n) == idx + 1 < n

\* the frame the kernel puts on the wire for a sendto that returned r
Transmitted(r, f) == IF r > 0 THEN <<Wire(r, f)>> ELSE <<>>

\* a bug: the transmitter reports as soon as its sends are out
AfterSend_Report(p) == IF flag_transmitter(p) THEN "report" ELSE "return"

\* (main's first test of each loop, 0 < packet_count, is made in Role)
\* the send loop's exit: the transmitter goes on to receive, the responder returns
AfterSend(p) == IF flag_transmitter(p) THEN "recv" ELSE "return"

\* a bug: the sequence numbers are counted from 1
WritePayload_OneBased(f, idx) == [f EXCEPT !.w0 = magic, !.w1 = idx + 1]

\* a bug: the two words are written at frame0, not at payload0, and so over
\* the header's first eight octets (least significant octet first)
WritePayload_AtHeader(f, idx) ==
  [f EXCEPT !.h_dest = <<35, 1, 16, 50, idx % 256, (idx \div 256) % 256>>,
            !.h_source = <<0, 0>> \o SubSeq(@, 3, 6)]

\* lines 263-264 and 328-329: payload0[0] = magic; payload0[1] = i
WritePayload(f, idx) == [f EXCEPT !.w0 = magic, !.w1 = idx]

\* one iteration of the send loop, lines 261-272 and 326-336
SendIter(p, faulty) ==
  /\ pc[p] = "send"
  /\ frame0' = [frame0 EXCEPT ![p] = WritePayload(@, i[p])]
  /\ \E r \in SendResults(faulty) :
       LET made == <<Call("sendto", <<frame0'[p].w0, frame0'[p].w1>>, r)>> IN
       /\ net' = [net EXCEPT ![Peer(p)] = @ \o Transmitted(r, frame0'[p])]
       /\ IF ShortCount(r)
            THEN /\ Return(p, -1, <<Line("error: sendto() failed to send requested byte count", <<>>)>>,
                           made, Unwind(fd[p], frame[p]))
                 /\ i' = i
            ELSE /\ i' = [i EXCEPT ![p] = IF More(@, packet_count[p]) THEN @ + 1 ELSE 0]
                 /\ Proceed(p, IF More(i[p], packet_count[p]) THEN "send" ELSE AfterSend(p), made)
  /\ UNCHANGED <<config, frame, fd, frame1, saddr, ifr, t0, out, faults, damaged>>

\* a bug: recvfrom is called with MSG_PEEK and leaves the frame queued
RecvResults_Peek(p, faulty) ==
  IF net[p] # <<>> THEN {<<Head(net[p]).len, Head(net[p]).data, net[p]>>} ELSE {}

\* a bug: a receive timeout is set, recvfrom gives up on an empty queue
RecvResults_Timeout(p, faulty) ==
  IF net[p] # <<>>
    THEN {<<Head(net[p]).len, Head(net[p]).data, Tail(net[p])>>}
    ELSE {<<-1, frame1[p], net[p]>>}

\* what recvfrom may do: take the frame at the head of the queue, or fail
\* <<return value, the receive buffer after the call, the queue after the call>>
RecvResults(p, faulty) ==
  (IF net[p] # <<>>
     THEN {<<Head(net[p]).len, Head(net[p]).data, Tail(net[p])>>}
     ELSE {})
  \cup (IF faulty THEN {<<-1, frame1[p], net[p]>>} ELSE {})

\* a bug: the magic word is not checked
BadPackage_SeqOnly(f, idx) == f.w1 # idx

\* a bug: the sequence number is not checked
BadPackage_MagicOnly(f, idx) == f.w0 # magic

\* the payload check, lines 282-283 and 318-319
BadPackage(f, idx) == f.w0 # magic \/ f.w1 # idx

\* lines 285 and 321: the diagnostic, with the expected index
BadPackageLine(p, idx) ==
  Line(IF flag_transmitter(p) THEN "error: bad response package"
                              ELSE "error: bad request package", <<idx>>)

\* a bug: the receive loop is followed by the send loop in both roles
AfterRecv_Resend(p) == "send"

\* the receive loop's exit: the transmitter reports, the responder goes on to send
AfterRecv(p) == IF flag_transmitter(p) THEN "report" ELSE "send"

\* one iteration of the receive loop, lines 274-288 and 309-324
RecvIter(p, faulty) ==
  /\ pc[p] = "recv"
  /\ \E res \in RecvResults(p, faulty) :
       LET r == res[1]
           made == <<Call("recvfrom", <<res[2].w0, res[2].w1>>, r)>>
       IN
       /\ frame1' = [frame1 EXCEPT ![p] = res[2]]
       /\ net' = [net EXCEPT ![p] = res[3]]
       /\ IF ShortCount(r)
            THEN /\ Return(p, -1, <<Line("error: recvfrom() got unexpected byte count", <<>>)>>,
                           made, Unwind(fd[p], frame[p]))
                 /\ i' = i
            ELSE IF BadPackage(res[2], i[p])
              THEN /\ Return(p, -1, <<BadPackageLine(p, i[p])>>, made, Unwind(fd[p], frame[p]))
                   /\ i' = i
              ELSE /\ i' = [i EXCEPT ![p] = IF More(@, packet_count[p]) THEN @ + 1 ELSE 0]
                   /\ Proceed(p, IF More(i[p], packet_count[p]) THEN "recv" ELSE AfterRecv(p), made)
  /\ UNCHANGED <<config, frame, fd, frame0, saddr, ifr, t0, out, faults, damaged>>

\* a bug: one direction only
Transcieved_OneWay(n) == packet_size * n

\* lines 293-295: bytes moved both ways
Transcieved(n) == packet_size * n * 2

\* a bug: the bandwidth is computed whatever dt is
ReportLine_NoGuard(dt, n) ==
  Line("elapsed time, transceived, bandwidth",
       <<dt, Transcieved(n), [bytes |-> Transcieved(n), nsec |-> dt]>>)

\* lines 290-303: what the transmitter prints for elapsed time dt
ReportLine(dt, n) ==
  IF 0 # dt
    THEN Line("elapsed time, transceived, bandwidth",
              <<dt, Transcieved(n), [bytes |-> Transcieved(n), nsec |-> dt]>>)
    ELSE Line("session failed", <<>>)

\* main, lines 290-303: the transmitter's report
Report(p) ==
  /\ pc[p] = "report"
  /\ \E t1 \in ReadingsFrom(t0[p]) :
       /\ out' = [out EXCEPT ![p] = Append(@, ReportLine(t1 - t0[p], packet_count[p]))]
       /\ calls' = [calls EXCEPT ![p] = Append(@, Call("timer_nsec", "t1", t1))]
  /\ pc' = [pc EXCEPT ![p] = "return"]
  /\ UNCHANGED <<config, frame, fd, frame0, frame1, saddr, ifr, i, t0, status, err, link>>

\* main, line 339: return 0
Return0(p) ==
  /\ pc[p] = "return"
  /\ Return(p, 0, <<>>, <<>>, Unwind(fd[p], frame[p]))
  /\ UNCHANGED <<config, frame, fd, frame0, frame1, saddr, ifr, i, t0, out, link>>

(* ------------------------------------------------------------------ link *)
Remove(q, k) == SubSeq(q, 1, k - 1) \o SubSeq(q, k + 1, Len(q))
Insert(q, k, f) == SubSeq(q, 1, k) \o <<f>> \o SubSeq(q, k + 1, Len(q))
Swap(q, k) == [j \in 1 .. Len(q) |-> IF j = k THEN q[k + 1] ELSE IF j = k + 1 THEN q[k] ELSE q[j]]

\* a frame bound for p is lost
Drop(p) ==
  /\ faults < MaxFaults
  /\ \E k \in 1 .. Len(net[p]) : net' = [net EXCEPT ![p] = Remove(@, k)]
  /\ faults' = faults + 1
  /\ damaged' = [damaged EXCEPT ![p] = TRUE]
  /\ UNCHANGED <<pc, config, frame, fd, frame0, frame1, saddr, ifr, i, t0, status, out, err, calls>>

\* two frames bound for p overtake each other
Reorder(p) ==
  /\ faults < MaxFaults
  /\ \E k \in 1 .. (Len(net[p]) - 1) :
       /\ net[p][k] # net[p][k + 1]
       /\ net' = [net EXCEPT ![p] = Swap(@, k)]
  /\ faults' = faults + 1
  /\ damaged' = [damaged EXCEPT ![p] = TRUE]
  /\ UNCHANGED <<pc, config, frame, fd, frame0, frame1, saddr, ifr, i, t0, status, out, err, calls>>

\* a frame bound for p arrives twice
Duplicate(p) ==
  /\ faults < MaxFaults
  /\ \E k \in 1 .. Len(net[p]) : net' = [net EXCEPT ![p] = Insert(@, k, @[k])]
  /\ faults' = faults + 1
  /\ UNCHANGED <<pc, config, frame, fd, frame0, frame1, saddr, ifr, i, t0, status, out, err, calls, damaged>>

\* a frame of another protocol reaches p's socket, behind those queued there
Inject(p) ==
  /\ faults < MaxFaults
  /\ \E f \in Foreign : net' = [net EXCEPT ![p] = Append(@, f)]
  /\ faults' = faults + 1
  /\ UNCHANGED <<pc, config, frame, fd, frame0, frame1, saddr, ifr, i, t0, status, out, err, calls, damaged>>

(* -------------------------------------------------------- specifications *)
\* one step of main() in process p
Main(p, faulty) ==
  \/ Alloc(p, faulty)
  \/ OpenSocket(p, faulty)
  \/ InitIndex(p, faulty)
  \/ InitHwaddr(p, faulty)
  \/ Bind(p, faulty)
  \/ Role(p)
  \/ SendIter(p, faulty)
  \/ RecvIter(p, faulty)
  \/ Report(p)
  \/ Return0(p)

\* any configuration, an OS whose calls may fail, a link that may misbehave
Next ==
  \E p \in Procs : Main(p, TRUE) \/ Drop(p) \/ Reorder(p) \/ Duplicate(p) \/ Inject(p)

Spec == Init /\ [][Next]_vars

\* a conformant pair on a lossless, order-preserving link; every call succeeds
NextLossless == \E p \in Procs : Main(p, FALSE)

SpecLossless == InitLossless /\ [][NextLossless]_vars

\* the scheduler lets every process that can run take its next step
FairLossless == SpecLossless /\ \A p \in Procs : WF_vars(Main(p, FALSE))

(* ------------------------------------------------ reading the call history *)
IsIO(c) == c.op \in {"sendto", "recvfrom"}
\* the sendto and recvfrom calls of p, in order
IOCalls(p) == SelectSeq(calls[p], IsIO)
IsSend(c) == c.op = "sendto"
IsRecv(c) == c.op = "recvfrom"
Sends(p) == SelectSeq(calls[p], IsSend)
Recvs(p) == SelectSeq(calls[p], IsRecv)
\* n full-frame sends of (magic, 0) .. (magic, n-1)
SendRun(n) == [k \in 1 .. n |-> Call("sendto", <<magic, k - 1>>, frame_max_size)]
\* n full-frame receives that returned (magic, 0) .. (magic, n-1)
RecvRun(n) == [k \in 1 .. n |-> Call("recvfrom", <<magic, k - 1>>, frame_max_size)]
Exited(p) == status[p] # <<>>
Succeeded(p) == status[p] = <<0>>
Failed(p) == Exited(p) /\ status[p] # <<0>> /\ err[p] # <<>>
IsStats(l) == l.text = "elapsed time, transceived, bandwidth"
IsSessionFailed(l) == l.text = "session failed"
Stats(p) == SelectSeq(out[p], IsStats)
SessionFailed(p) == SelectSeq(out[p], IsSessionFailed)
\* the two clock readings of the transmitter
IsClock(c) == c.op = "timer_nsec"
Clocks(p) == SelectSeq(calls[p], IsClock)
\* the run has come to rest: each process has exited or waits in recvfrom on
\* an empty queue
Quiescent == \A p \in Procs : pc[p] = "done" \/ (pc[p] = "recv" /\ net[p] = <<>>)

(* ------------------------------------------------------------------- C1 *)
EqualCounts == packet_count["T"] = packet_count["R"]

\* both processes exited 0 after both phases
BothComplete ==
  /\ \A p \in Procs : Succeeded(p) /\ err[p] = <<>>
  /\ IOCalls("T") = SendRun(packet_count["T"]) \o RecvRun(packet_count["T"])
  /\ IOCalls("R") = RecvRun(packet_count["R"]) \o SendRun(packet_count["R"])

\* C1 as stated: with equal counts on the conformant lossless link, once the
\* transmitter has exited it has exited 0 and has reported exactly
\* 2 x 1500 x N bytes transceived.
C1_AsStated ==
  (EqualCounts /\ Exited("T")) =>
     /\ Succeeded("T")
     /\ Len(Stats("T")) = 1
     /\ Stats("T")[1].vals[2] = 2 * 1500 * packet_count["T"]

\* C1, amended: with equal counts N on the conformant lossless link both
\* processes eventually exit with status 0 having completed both phases, and
\* the transmitter has then printed exactly one report: the statistics with
\* bytes transceived = 2 x 1500 x N when the elapsed time it measured is not
\* zero, and "session failed" (no byte count) when it is zero.
C1_RoundTrip ==
  EqualCounts ~>
    (/\ BothComplete
     /\ LET dt == Clocks("T")[2].ret - Clocks("T")[1].ret IN
        IF dt # 0
          THEN /\ Len(Stats("T")) = 1 /\ SessionFailed("T") = <<>>
               /\ Stats("T")[1].vals[2] = 2 * 1500 * packet_count["T"]
          ELSE Stats("T") = <<>> /\ Len(SessionFailed("T")) = 1)

\* the round trip of the largest count ended with statistics printed
C1_Witness ==
  /\ EqualCounts /\ packet_count["T"] = MaxLosslessCount
  /\ BothComplete
  /\ Len(Stats("T")) = 1
  /\ Stats("T")[1].vals[2] = 2 * 1500 * MaxLosslessCount

(* ------------------------------------------------------------------- C2 *)
FirstPhase(p, n) == IF flag_transmitter(p) THEN SendRun(n) ELSE RecvRun(n)
SecondOp(p) == IF flag_transmitter(p) THEN "recvfrom" ELSE "sendto"
SecondLabel(p) == IF flag_transmitter(p) THEN "recv" ELSE "send"

\* C2: the transmitter is in, or has made a call of, its receive phase only
\* after packet_count full-frame sends, the responder is in, or has made a
\* call of, its send phase only after packet_count validated receives, and no
\* call of the first phase follows a call of the second.
C2_PhaseOrder ==
  \A p \in Procs :
    LET io == IOCalls(p)
        n == packet_count[p]
        InSecond == pc[p] = SecondLabel(p) \/ \E j \in 1 .. Len(io) : io[j].op = SecondOp(p)
    IN
    /\ InSecond => (Len(io) >= n /\ SubSeq(io, 1, n) = FirstPhase(p, n))
    /\ \A j \in 1 .. Len(io) : io[j].op = SecondOp(p) => j > n
    /\ \A j \in 1 .. Len(io) : j > n => io[j].op = SecondOp(p)

\* both second phases have begun, with the largest count
C2_Witness ==
  /\ \A p \in Procs : packet_count[p] = MaxCount
  /\ Len(Recvs("T")) > 0
  /\ Len(Sends("R")) > 0

(* ------------------------------------------------------------------- C3 *)
\* the call p makes in this step, if it makes one
NewCall(p) == calls'[p][Len(calls[p]) + 1]
MakesCall(p) == Len(calls'[p]) > Len(calls[p])
NonZeroExit(st) == st # <<>> /\ st # <<0>>
BadPackageTexts == {"error: bad response package", "error: bad request package"}

\* this step's recvfrom hands p a full-length frame that is not (magic, i)
MismatchReturned(p) ==
  /\ pc[p] = "recv"
  /\ MakesCall(p)
  /\ NewCall(p).op = "recvfrom"
  /\ NewCall(p).ret = frame_max_size
  /\ NewCall(p).arg # <<magic, i[p]>>

\* once exited, a process makes no call and changes nothing of its own
StaysExited(p) ==
  Exited(p) => /\ calls'[p] = calls[p] /\ i'[p] = i[p] /\ status'[p] = status[p]
               /\ err'[p] = err[p] /\ out'[p] = out[p] /\ pc'[p] = pc[p]

\* C3: a receive at expected index i that returns a full-length frame whose
\* payload is not (magic, i) ends the run in that step with the bad-package
\* diagnostic naming i and a non-zero status; the index stays i, nothing is
\* sent, and an exited process makes no further call (a responder failing so
\* has sent no frame).
C3_Mismatch ==
  [][\A p \in Procs :
       /\ MismatchReturned(p) =>
            /\ pc'[p] = "done"
            /\ NonZeroExit(status'[p])
            /\ Len(err'[p]) = Len(err[p]) + 1
            /\ err'[p][Len(err'[p])].text \in BadPackageTexts
            /\ err'[p][Len(err'[p])].vals = <<i[p]>>
            /\ i'[p] = i[p]
            /\ net'[Peer(p)] = net[Peer(p)]
            /\ (~flag_transmitter(p) => Sends(p)' = <<>>)
       /\ StaysExited(p)]_vars

\* the responder got a frame of the protocol with the wrong sequence number
C3_Witness ==
  /\ Failed("R")
  /\ err["R"][1].text \in BadPackageTexts
  /\ frame1["R"].w0 = magic
  /\ frame1["R"].w1 # i["R"]
  /\ Sends("R") = <<>>

(* ------------------------------------------------------------------- C4 *)
FullOrPart(c) == c.ret > 0
Content(c) == <<c.arg, c.ret>>
Map(q, Op(_)) == [k \in 1 .. Len(q) |-> Op(q[k])]
\* the frames p put on the wire, and the frames p's receives returned
Sent(p) == Map(SelectSeq(Sends(p), FullOrPart), Content)
Delivered(p) == Map(SelectSeq(Recvs(p), FullOrPart), Content)
IsPrefix(a, b) == Len(a) <= Len(b) /\ a = SubSeq(b, 1, Len(a))
Front(q) == SubSeq(q, 1, Len(q) - 1)

\* C4 as stated: when a frame was dropped or reordered and the run has come
\* to rest, an endpoint has terminated with a diagnostic and non-zero status,
\* and no endpoint has reported success.
C4_AsStated ==
  ((\E p \in Procs : damaged[p]) /\ Quiescent) =>
     /\ \E p \in Procs : Failed(p)
     /\ Stats("T") = <<>>

\* C4, amended: loss and reordering are never recovered, and are fatal when a
\* receive shows them: whenever the frames an endpoint's receives returned
\* are not a prefix of the frames its peer sent (a frame was lost, overtaken
\* or repeated before the one returned), that endpoint has terminated with a
\* diagnostic and non-zero status at the first such frame and has printed no
\* statistics.  (A dropped frame that no later frame shows raises no failure:
\* the endpoint waiting for it stays in recvfrom.)
C4_LossShown ==
  \A p \in Procs :
    ~IsPrefix(Delivered(p), Sent(Peer(p))) =>
       /\ Failed(p)
       /\ Stats(p) = <<>>
       /\ IsPrefix(Front(Delivered(p)), Sent(Peer(p)))
       /\ IOCalls(p)[Len(IOCalls(p))].op = "recvfrom"

\* a frame bound for the responder was dropped or overtaken, and the next
\* frame showed it
C4_Witness ==
  /\ damaged["R"]
  /\ ~IsPrefix(Delivered("R"), Sent("T"))
  /\ Failed("R")
  /\ Delivered("R")[Len(Delivered("R"))][1][1] = magic

(* ------------------------------------------------------------------- C5 *)
\* C5 as stated: transmitter with 10 packets, responder with 5, lossless
\* link: when the run has come to rest the transmitter, the longer-running
\* side, has terminated with the sequence-mismatch or the short-receive
\* diagnostic.
C5_AsStated ==
  (packet_count["T"] = 10 /\ packet_count["R"] = 5 /\ Quiescent) =>
     /\ Failed("T")
     /\ err["T"][1].text \in BadPackageTexts \cup {"error: recvfrom() got unexpected byte count"}

\* C5, amended: when the transmitter's count exceeds the responder's (10 and
\* 5 among them) on the lossless link, the transmitter never terminates and
\* prints no diagnostic: when the run has come to rest the responder has
\* exited 0 after both its phases, the transmitter has validated the
\* responder's frames and waits in recvfrom at the index equal to the
\* responder's count, and the frames the responder did not take stay queued.
C5_Mismatched ==
  (packet_count["T"] > packet_count["R"]) =>
     /\ ~Exited("T") /\ err["T"] = <<>> /\ Stats("T") = <<>>
     /\ Quiescent =>
          /\ Succeeded("R")
          /\ IOCalls("R") = RecvRun(packet_count["R"]) \o SendRun(packet_count["R"])
          /\ pc["T"] = "recv" /\ i["T"] = packet_count["R"]
          /\ IOCalls("T") = SendRun(packet_count["T"]) \o RecvRun(packet_count["R"])
          /\ Len(net["R"]) = packet_count["T"] - packet_count["R"]

\* the 10-against-5 run at rest
C5_Witness ==
  /\ packet_count["T"] = 10 /\ packet_count["R"] = 5
  /\ Quiescent
  /\ pc["T"] = "recv" /\ i["T"] = 5
  /\ Succeeded("R")

(* ------------------------------------------------------------------- C6 *)
ShortTexts == [sendto |-> "error: sendto() failed to send requested byte count",
               recvfrom |-> "error: recvfrom() got unexpected byte count"]

\* this step's sendto or recvfrom returns something other than 1514
ShortReturned(p) ==
  /\ MakesCall(p)
  /\ IsIO(NewCall(p))
  /\ NewCall(p).ret # 1514

\* C6: a sendto or recvfrom, at any index, that returns a count other than
\* 1514 (-1 included) ends the run in that step: the diagnostic of the call
\* is printed, the status is non-zero, it is the last call but for the
\* destructors' close and free, the index does not move, no statistics are
\* printed, and an exited process makes no further call.
C6_ShortIO ==
  [][\A p \in Procs :
       /\ ShortReturned(p) =>
            /\ pc'[p] = "done"
            /\ NonZeroExit(status'[p])
            /\ err'[p] = Append(err[p], Line(ShortTexts[NewCall(p).op], <<>>))
            /\ IOCalls(p)' = Append(IOCalls(p), NewCall(p))
            /\ i'[p] = i[p]
            /\ Stats(p)' = <<>> /\ SessionFailed(p)' = <<>>
       /\ StaysExited(p)]_vars

\* a short count after the first iteration, and an error return after it,
\* ended runs
C6_Witness ==
  /\ Failed("T") /\ i["T"] > 0
  /\ IOCalls("T")[Len(IOCalls("T"))].ret = frame_min_size
  /\ Failed("R") /\ i["R"] > 0
  /\ IOCalls("R")[Len(IOCalls("R"))].ret = -1

(* ------------------------------------------------------------------- C7 *)
IsClose(c) == c.op = "close"
IsFree(c) == c.op = "free"
IsMalloc(c) == c.op = "malloc"
IsSocket(c) == c.op = "socket"
Closes(p) == SelectSeq(calls[p], IsClose)
Frees(p) == SelectSeq(calls[p], IsFree)
\* the buffer and the descriptor p holds, if it acquired them
HeldBuffer(p) == SelectSeq(SelectSeq(calls[p], IsMalloc), LAMBDA c : c.ret # 0)
HeldSocket(p) == SelectSeq(SelectSeq(calls[p], IsSocket), LAMBDA c : c.ret >= 0)

\* C7: a process that has exited has closed the descriptor it acquired
\* exactly once and freed the buffer it acquired exactly once, whatever the
\* exit path; a null buffer is never freed and a negative descriptor never
\* closed; nothing is released twice.
C7_Cleanup ==
  \A p \in Procs :
    /\ Exited(p) =>
         /\ Closes(p) = Map(HeldSocket(p), LAMBDA c : Call("close", c.ret, 0))
         /\ Frees(p) = Map(HeldBuffer(p), LAMBDA c : Call("free", c.ret, 0))
    /\ Len(Closes(p)) <= Len(HeldSocket(p))
    /\ Len(Frees(p)) <= Len(HeldBuffer(p))

\* an exit after a sequence mismatch released both; an exit after a failed
\* socket() freed the buffer and closed nothing
C7_Witness ==
  /\ Failed("T") /\ err["T"][1].text \in BadPackageTexts
  /\ Len(Closes("T")) = 1 /\ Len(Frees("T")) = 1
  /\ Failed("R") /\ fd["R"] < 0
  /\ Closes("R") = <<>> /\ Len(Frees("R")) = 1

(* ------------------------------------------------------------------- C8 *)
LookupOps == {"ioctl SIOCGIFINDEX", "ioctl SIOCGIFHWADDR"}
LookupTexts == {"error: cannot obtain iface name", "error: cannot obtain iface hw addr"}
HasCall(p, ops) == \E j \in 1 .. Len(calls[p]) : calls[p][j].op \in ops
LookupFailure(p) ==
  \E j \in 1 .. Len(calls[p]) : calls[p][j].op \in LookupOps /\ calls[p][j].ret = -1

\* C8: a process that is in a loop, or has made a sendto or recvfrom, began
\* with a successful socket(), index query, hardware-address query and bind,
\* in that order; a failed interface query ends the run with an
\* interface-lookup diagnostic and non-zero status with no bind, sendto or
\* recvfrom made, and an interface name the kernel does not know always
\* fails so.
C8_SetupFirst ==
  \A p \in Procs :
    /\ (IOCalls(p) # <<>> \/ pc[p] \in {"send", "recv"}) =>
         /\ Len(calls[p]) >= 5
         /\ calls[p][2].op = "socket" /\ calls[p][2].ret >= 0
         /\ calls[p][3] = Call("ioctl SIOCGIFINDEX", iface_name[p], 0)
         /\ calls[p][4] = Call("ioctl SIOCGIFHWADDR", iface_name[p], 0)
         /\ calls[p][5].op = "bind" /\ calls[p][5].ret = 0
         /\ \A j \in 1 .. 5 : ~IsIO(calls[p][j])
    /\ LookupFailure(p) =>
         /\ Failed(p)
         /\ Len(err[p]) = 1 /\ err[p][1].text \in LookupTexts
         /\ ~HasCall(p, {"bind", "sendto", "recvfrom"})
    /\ iface_name[p] \notin DOMAIN IfTable => ~HasCall(p, {"bind", "sendto", "recvfrom"})
    /\ (iface_name[p] \notin DOMAIN IfTable /\ HasCall(p, LookupOps)) => LookupFailure(p)

\* the responder's interface does not exist and its run ended at the lookup,
\* while the transmitter got as far as sending
C8_Witness ==
  /\ iface_name["R"] \notin DOMAIN IfTable
  /\ Failed("R") /\ err["R"][1].text = "error: cannot obtain iface name"
  /\ Sends("T") # <<>>

(* ------------------------------------------------------------------- C9 *)
\* C9: the transmitter prints a report only after both phases and only once:
\* with dt the difference of its two clock readings, the report is "session
\* failed" when dt = 0 and otherwise the elapsed time dt, the bytes
\* 2 x 1500 x N and the bandwidth bytes / dt, never with a zero divisor; the
\* process then exits with status 0.
C9_ZeroDuration ==
  LET n == packet_count["T"]
      reports == Len(Stats("T")) + Len(SessionFailed("T"))
  IN
  /\ reports <= 1
  /\ \A k \in 1 .. Len(Stats("T")) : Stats("T")[k].vals[3].nsec # 0
  /\ reports = 1 <=> Len(Clocks("T")) = 2
  /\ Len(Clocks("T")) = 2 =>
       LET dt == Clocks("T")[2].ret - Clocks("T")[1].ret
           bytes == 2 * 1500 * n
       IN
       /\ IOCalls("T") = SendRun(n) \o RecvRun(n)
       /\ dt >= 0
       /\ (dt = 0) => (out["T"][2] = Line("session failed", <<>>) /\ Stats("T") = <<>>)
       /\ (dt # 0) =>
            /\ SessionFailed("T") = <<>>
            /\ Stats("T")[1].vals = <<dt, bytes, [bytes |-> bytes, nsec |-> dt]>>
       /\ Exited("T") => Succeeded("T")
       /\ err["T"] = <<>>
  /\ Stats("R") = <<>> /\ SessionFailed("R") = <<>>

\* a run whose two clock readings were equal exited 0 with "session failed"
C9_Witness ==
  /\ Succeeded("T")
  /\ Len(SessionFailed("T")) = 1
  /\ Clocks("T")[2].ret = Clocks("T")[1].ret

(* ------------------------------------------------------------------ C10 *)
\* init_ethhdr_and_saddr returned true
InitSucceeded(p) == \E j \in 1 .. Len(calls[p]) : calls[p][j] = Call("ioctl SIOCGIFHWADDR", iface_name[p], 0)

\* C10: once init_ethhdr_and_saddr has succeeded, the send frame's header
\* has destination = the target's six octets, source = the interface's
\* hardware address and protocol = 0x0800 in network order; the socket
\* address has the interface's index, the target as its address and
\* AF_PACKET (17), ARPHRD_ETHER (1), PACKET_OTHERHOST (3), length 6 and
\* protocol 0x0800; header destination and socket address agree.
C10_Binding ==
  \A p \in Procs :
    InitSucceeded(p) =>
      /\ frame0[p].h_dest = SubSeq(target[p], 1, 6)
      /\ frame0[p].h_source = IfTable[iface_name[p]].hwaddr
      /\ frame0[p].h_proto = <<8, 0>>
      /\ saddr[p].sll_ifindex = IfTable[iface_name[p]].ifindex
      /\ saddr[p].sll_addr = SubSeq(target[p], 1, 6) \o <<0, 0>>
      /\ saddr[p].sll_family = 17 /\ saddr[p].sll_hatype = 1
      /\ saddr[p].sll_pkttype = 3 /\ saddr[p].sll_halen = 6
      /\ saddr[p].sll_protocol = <<8, 0>>
      /\ frame0[p].h_dest = SubSeq(saddr[p].sll_addr, 1, saddr[p].sll_halen)

\* set up on eth1, whose address has octets above 127, aiming at the other
\* host, and a frame with that header has gone out
C10_Witness ==
  /\ InitSucceeded("T") /\ iface_name["T"] = "eth1"
  /\ frame0["T"].h_source = MacB /\ frame0["T"].h_dest = MacA
  /\ Sends("T") # <<>>
  /\ net["R"] # <<>> /\ net["R"][1].data.h_source = MacB

(* ------------------------------------------------------------------ C11 *)
\* the diagnostic that names a failed call (a bad package names the role's
\* direction and the index, see BadPackageLine)
FailureTexts ==
  [malloc |-> {"error: cannot allocate buffer"},
   socket |-> {"error: cannot create socket"},
   sendto |-> {"error: sendto() failed to send requested byte count"},
   recvfrom |-> {"error: recvfrom() got unexpected byte count"},
   bind |-> {"error: cannot bind to iface"}]
\* did call c fail?  the failures of the core: allocation, socket
\* open, interface lookup, bind, short send, short receive
CallFailed(c) ==
  \/ c.op = "malloc" /\ c.ret = 0
  \/ c.op = "socket" /\ c.ret < 0
  \/ c.op \in LookupOps /\ c.ret # 0
  \/ c.op = "bind" /\ c.ret # 0
  \/ IsIO(c) /\ c.ret # 1514
\* the texts that name the failure of call c
TextsOf(c) == IF c.op \in LookupOps THEN LookupTexts ELSE FailureTexts[c.op]
\* the calls of p that failed, and the receives of p that returned a full
\* frame other than (magic, index of the receive)
FailedCalls(p) == SelectSeq(calls[p], CallFailed)
Mismatches(p) ==
  {j \in 1 .. Len(Recvs(p)) :
     Recvs(p)[j].ret = 1514 /\ Recvs(p)[j].arg # <<839909667, j - 1>>}
CoreFailures(p) == Len(FailedCalls(p)) + Cardinality(Mismatches(p))

\* C11: a process that has exited has a non-zero status exactly when one of
\* its calls failed (allocation, socket, interface query, bind, short send,
\* short receive) or a receive returned a frame out of sequence; a failure
\* happens at most once, ends the run in the same step and leaves exactly
\* one line on stderr, the one naming the failed operation; a process without
\* a failure has printed nothing on stderr and, once exited, has status 0.
C11_Outcome ==
  \A p \in Procs :
    /\ CoreFailures(p) <= 1
    /\ Len(err[p]) = CoreFailures(p)
    /\ CoreFailures(p) = 1 => Exited(p) /\ status[p] # <<0>>
    /\ Exited(p) => (status[p] # <<0>> <=> CoreFailures(p) = 1)
    /\ FailedCalls(p) # <<>> => err[p][1].text \in TextsOf(FailedCalls(p)[1])
    /\ \A j \in Mismatches(p) :
         /\ err[p][1] = BadPackageLine(p, j - 1)
         /\ j = Len(Recvs(p))
    /\ \A k \in 1 .. Len(out[p]) : out[p][k].text \notin
         (LookupTexts \cup BadPackageTexts \cup UNION {FailureTexts[o] : o \in DOMAIN FailureTexts})

\* the transmitter's run ended at a failed receive with its one diagnostic,
\* after the responder's run had ended without a failure, a diagnostic or a
\* non-zero status
C11_Witness ==
  /\ Succeeded("R") /\ err["R"] = <<>> /\ CoreFailures("R") = 0
  /\ NonZeroExit(status["T"]) /\ Len(err["T"]) = 1
  /\ err["T"][1].text = "error: recvfrom() got unexpected byte count"
  /\ Len(Sends("T")) = packet_count["T"]

(* ------------------------------------------------------------------ C12 *)
\* this step's sendto of p, and the frame it leaves queued for the peer
SendsNow(p) == MakesCall(p) /\ NewCall(p).op = "sendto"
LastQueued(p) == net'[p][Len(net'[p])]

\* C12: the sendto calls of an endpoint are, in order, sends of (magic, 0),
\* (magic, 1), ...: the j-th (0-based) carries 0x32100123 and j, and there
\* are never more than packet_count of them; each send is made at index
\* i = the number of sends before it, and the frame it puts on the wire
\* carries that payload.
C12_SendSequence ==
  /\ [](\A p \in Procs :
          /\ Len(Sends(p)) <= packet_count[p]
          /\ \A j \in 1 .. Len(Sends(p)) : Sends(p)[j].arg = <<839909667, j - 1>>)
  /\ [][\A p \in Procs :
          SendsNow(p) =>
            /\ i[p] = Len(Sends(p))
            /\ NewCall(p).arg = <<839909667, i[p]>>
            /\ NewCall(p).ret > 0 =>
                 /\ Len(net'[Peer(p)]) = Len(net[Peer(p)]) + 1
                 /\ LastQueued(Peer(p)).data.w0 = 839909667
                 /\ LastQueued(Peer(p)).data.w1 = i[p]]_vars

\* both endpoints have sent all their frames, with the largest count
C12_Witness ==
  /\ \A p \in Procs : packet_count[p] = MaxCount /\ Len(Sends(p)) = MaxCount
  /\ Sends("R")[MaxCount].arg = <<magic, MaxCount - 1>>

(* ------------------------------------------------------------------ C13 *)
IsTimed(c) == IsIO(c) \/ IsClock(c)
\* the clock readings, sends and receives of p, in order
Timeline(p) == SelectSeq(calls[p], IsTimed)

\* C13: statistics are printed at most once, by the transmitter only, and
\* only when its calls were: the start reading, packet_count full sends of
\* (magic, 0) .., packet_count full receives of (magic, 0) .., the end
\* reading, in this order, the elapsed time printed being the difference of
\* the two readings; the start reading precedes every send and receive, the
\* end reading follows them all; the responder reads no clock and prints no
\* report, and a transmitter that failed has printed none.
C13_Timing ==
  LET n == packet_count["T"]
      tl == Timeline("T")
  IN
  /\ Len(Stats("T")) <= 1
  /\ Stats("R") = <<>> /\ SessionFailed("R") = <<>> /\ Clocks("R") = <<>>
  /\ Len(Clocks("T")) <= 2
  /\ tl # <<>> => tl[1].op = "timer_nsec" /\ tl[1].arg = "t0"
  /\ \A k \in 2 .. Len(tl) : IsClock(tl[k]) => (k = Len(tl) /\ k = 2 * n + 2 /\ tl[k].arg = "t1")
  /\ Stats("T") # <<>> =>
       /\ Len(tl) = 2 * n + 2
       /\ SubSeq(tl, 2, 2 * n + 1) = SendRun(n) \o RecvRun(n)
       /\ IsClock(tl[2 * n + 2])
       /\ Stats("T")[1].vals[1] = tl[2 * n + 2].ret - tl[1].ret
       /\ out["T"][Len(out["T"])] = Stats("T")[1]
  /\ NonZeroExit(status["T"]) =>
       /\ Stats("T") = <<>> /\ SessionFailed("T") = <<>>
       /\ Len(Clocks("T")) <= 1

\* the transmitter printed its statistics after the largest exchange, its end
\* reading later than its start reading, and the responder has exited
C13_Witness ==
  /\ packet_count["T"] = MaxCount
  /\ Len(Stats("T")) = 1
  /\ Len(Timeline("T")) = 2 * MaxCount + 2
  /\ Clocks("T")[2].ret > Clocks("T")[1].ret
  /\ Exited("R")

(* ------------------------------------------------------------------ C14 *)
\* p is in recvfrom and no frame is queued at its socket
Blocked(p) == pc[p] = "recv" /\ net[p] = <<>>

\* C14: recvfrom has no timeout.  While no frame is delivered to an endpoint
\* that waits in recvfrom at index i, no step is a step of that endpoint: it
\* stays in that recvfrom, does not exit, prints nothing, keeps its index,
\* makes no call and puts no frame on the wire; only a frame's arrival lets it
\* go on.
C14_NoTimeout ==
  [][\A p \in Procs :
       Blocked(p) =>
         /\ pc'[p] = "recv" /\ status'[p] = <<>>
         /\ err'[p] = err[p] /\ out'[p] = out[p]
         /\ i'[p] = i[p]
         /\ calls'[p] = calls[p]
         /\ Len(net'[Peer(p)]) <= Len(net[Peer(p)])
         /\ (net'[p] = <<>> => Blocked(p)')]_vars

\* the responder sent its one frame and exited; the transmitter, counting on
\* three, waits at index 1 for a frame that will never come
C14_Witness ==
  /\ packet_count["T"] = 3 /\ packet_count["R"] = 1
  /\ Exited("R")
  /\ Blocked("T") /\ i["T"] = 1
  /\ ~Exited("T") /\ err["T"] = <<>>
  /\ Len(Recvs("T")) = 1

(* ------------------------------------------------------------------ C15 *)
\* the 14 octets of a frame's header
Header(f) == f.h_dest \o f.h_source \o f.h_proto
\* the octets from address a, len of them, lie apart from / within those
\* from address b
Apart(a, alen, b, blen) == a + alen <= b \/ b + blen <= a
Within(a, alen, b, blen) == b <= a /\ a + alen <= b + blen
RecvsNow(p) == MakesCall(p) /\ NewCall(p).op = "recvfrom"

\* C15: the two frames are 1514 octets each, lie apart and within the
\* allocation, and the eight octets the send loops write lie in the send
\* frame behind its 14-octet header.  Once init_ethhdr_and_saddr has
\* succeeded no step changes the send frame's header; a send iteration
\* changes nothing of the two frames but the send frame's first two payload
\* words, and the frame it puts on the wire carries the header of the setup;
\* a receive changes nothing of the send frame.
C15_HeaderFixed ==
  /\ [](\A p \in Procs :
          frame[p] # 0 =>
            /\ Apart(Frame0At(frame[p]), 1514, Frame1At(frame[p]), 1514)
            /\ Within(Frame0At(frame[p]), 1514, frame[p], AllocSize)
            /\ Within(Frame1At(frame[p]), 1514, frame[p], AllocSize)
            /\ Within(Payload0At(frame[p]), 8, Frame0At(frame[p]) + 14, 1500)
            /\ Within(Payload1At(frame[p]), 8, Frame1At(frame[p]) + 14, 1500)
            /\ (InitSucceeded(p) => Len(Header(frame0[p])) = 14))
  /\ [][\A p \in Procs :
          /\ InitSucceeded(p) => Header(frame0'[p]) = Header(frame0[p])
          /\ SendsNow(p) =>
               /\ frame0'[p] = [frame0[p] EXCEPT !.w0 = 839909667, !.w1 = i[p]]
               /\ frame1'[p] = frame1[p]
               /\ NewCall(p).ret > 0 =>
                    Header(LastQueued(Peer(p)).data) = Header(frame0[p])
          /\ RecvsNow(p) => frame0'[p] = frame0[p]]_vars

\* after all its sends and a receive the transmitter's send frame still has
\* the header of the setup, and its receive frame holds the responder's frame
C15_Witness ==
  /\ InitSucceeded("T") /\ iface_name["T"] = "eth0"
  /\ packet_count["T"] = MaxCount /\ Len(Sends("T")) = MaxCount
  /\ Len(Recvs("T")) >= 1 /\ frame1["T"].w0 = magic
  /\ Header(frame0["T"]) = MacB \o MacA \o <<8, 0>>
  /\ Header(frame1["T"]) = MacA \o MacB \o <<8, 0>>
  /\ frame0["T"].w1 = MaxCount - 1

(* ------------------------------------------------------------------ C16 *)
\* frames sent to p and not yet received by p
InFlight(p) == Len(Sends(Peer(p))) - Len(Recvs(p))

\* C16: on the conformant lossless link the frames sent to an endpoint and
\* not yet received by it are those queued at its socket, and they are never
\* more than the sender's packet_count; with the same count N on both sides
\* neither direction ever holds more than N frames.
C16_Buffering ==
  \A p \in Procs :
    /\ InFlight(p) = Len(net[p])
    /\ InFlight(p) >= 0
    /\ InFlight(p) <= packet_count[Peer(p)]
    /\ EqualCounts => Len(net[p]) <= packet_count[p]

\* the responder, set up and in its first recvfrom, was not scheduled while
\* the transmitter sent all N frames of the largest count: N frames are
\* queued at the responder
C16_Witness ==
  /\ EqualCounts /\ packet_count["T"] = MaxLosslessCount
  /\ pc["R"] = "recv" /\ Recvs("R") = <<>>
  /\ pc["T"] = "recv"
  /\ InFlight("R") = MaxLosslessCount
  /\ Len(net["R"]) = MaxLosslessCount

(* ------------------------------------------------------------------ C17 *)
\* C17: with the same packet_count N on both sides of the conformant
\* lossless link, whenever the responder has sent a frame the transmitter has
\* made all its N sends and is past its send loop, and the responder has
\* received every one of them, (magic, 0) .. (magic, N-1), before its first
\* send: no frame of the transmitter is still to be sent or still queued.
C17_HalfDuplex ==
  (EqualCounts /\ Sends("R") # <<>>) =>
     LET n == packet_count["T"] IN
     /\ Sends("T") = SendRun(n)
     /\ pc["T"] \in {"recv", "report", "return", "done"}
     /\ net["R"] = <<>>
     /\ Len(IOCalls("R")) > n
     /\ SubSeq(IOCalls("R"), 1, n) = RecvRun(n)

\* the responder has made its first send, after the largest exchange one way,
\* and the transmitter has not yet received it
C17_Witness ==
  /\ EqualCounts /\ packet_count["T"] = MaxLosslessCount
  /\ Len(Sends("R")) = 1
  /\ Len(Sends("T")) = MaxLosslessCount
  /\ Recvs("T") = <<>> /\ Len(net["T"]) = 1

(* ------------------------------------------------------------------ C18 *)
\* C18: whatever the link and the OS do, a responder that has exited with
\* status 0 made exactly these sends and receives: packet_count receives
\* that returned 1514 octets with payloads (magic, 0) .. (magic,
\* packet_count - 1) in that order, then packet_count sends of 1514 octets;
\* and a transmitter that has printed statistics, or has exited with status
\* 0, made exactly packet_count sends of 1514 octets and then packet_count
\* receives that returned 1514 octets with payloads (magic, 0) .. in order.
C18_SuccessComplete ==
  /\ Succeeded("R") =>
       LET n == packet_count["R"]
           io == IOCalls("R")
       IN
       /\ Len(io) = 2 * n
       /\ \A k \in 1 .. n :
            /\ io[k] = [op |-> "recvfrom", arg |-> <<839909667, k - 1>>, ret |-> 1514]
            /\ io[n + k].op = "sendto" /\ io[n + k].ret = 1514
  /\ (Stats("T") # <<>> \/ Succeeded("T")) =>
       LET n == packet_count["T"]
           io == IOCalls("T")
       IN
       /\ Len(io) = 2 * n
       /\ \A k \in 1 .. n :
            /\ io[k].op = "sendto" /\ io[k].ret = 1514
            /\ io[n + k] = [op |-> "recvfrom", arg |-> <<839909667, k - 1>>, ret |-> 1514]

\* the link misbehaved, and still both runs of the largest count succeeded:
\* the responder exited 0 and the transmitter printed its statistics
C18_Witness ==
  /\ faults > 0
  /\ \A p \in Procs : packet_count[p] = MaxCount
  /\ Succeeded("R")
  /\ Len(Stats("T")) = 1
  /\ Len(IOCalls("R")) = 2 * MaxCount

====
